---- MODULE Spec2Model ----
(***************************************************************************)
(* Authentication, token lifecycle and contacts of app-fast-api-contacts.  *)
(*                                                                         *)
(* The store holds the rows of the users, password_reset_tokens and        *)
(* contacts tables (src/entity/models.py).  Every request handler of       *)
(* src/routes/auth.py and src/routes/contacts.py is one atomic action: it  *)
(* reads the store, commits its writes and leaves its HTTP response in the *)
(* variable last (auth) or reply (contacts).  The token issuer and the     *)
(* credential hasher (src/services/auth.py) are not part of the sources at *)
(* hand; they are modelled from sections 4.1 and 4.2 of the specification. *)
(***************************************************************************)
EXTENDS Integers, Sequences, FiniteSets, TLC

\* ---------------------------------------------------------------- bounds
Emails == {"a@x.com", "b@x.com"}
Usernames == {"agent007", "deadpool"}
Passwords == {"12345678", "password"}
MaxTime == 1
MaxResetTokens == 1
MaxContacts == 2

\* ------------------------------------------------------ program constants
\* timedelta(hours=1): the clock of the model counts hours
ResetTTL == 1
\* life times of the signed tokens, in clock units (scaled down)
AccessTTL == 1
RefreshTTL == 1
EmailTTL == 1

HTTP_200_OK == 200
HTTP_201_CREATED == 201
HTTP_204_NO_CONTENT == 204
HTTP_400_BAD_REQUEST == 400
HTTP_401_UNAUTHORIZED == 401
HTTP_404_NOT_FOUND == 404
HTTP_409_CONFLICT == 409
HTTP_500_INTERNAL_SERVER_ERROR == 500

VARIABLES users, password_reset_tokens, now, reset_seq, last,
          contacts, contact_seq, reply, inflight

vars == <<users, password_reset_tokens, now, reset_seq, last,
          contacts, contact_seq, reply, inflight>>

\* ------------------------------------------------------------ token issuer
Scopes == {"access_token", "refresh_token", "email_token"}

\* Python's None in a column or a response field that holds a token
None == [sub |-> "", scope |-> "", exp |-> 0, sig |-> FALSE]

\* a signed token carries subject, expiry and a type discriminator
create_token(email, scope, ttl) ==
    [sub |-> email, scope |-> scope, exp |-> now + ttl, sig |-> TRUE]

create_access_token(email) == create_token(email, "access_token", AccessTTL)

create_refresh_token(email) == create_token(email, "refresh_token", RefreshTTL)

create_email_token(email) == create_token(email, "email_token", EmailTTL)

\* decoding fails on a bad signature, a wrong type or now >= exp
token_valid(token, scope) ==
    /\ token.sig
    /\ token.scope = scope
    /\ now < token.exp

decode_refresh_token_ok(token) == token_valid(token, "refresh_token")

get_email_from_token_ok(token) == token_valid(token, "email_token")

\* a token string whose signature does not verify
TamperedToken == [sub |-> "a@x.com", scope |-> "refresh_token", exp |-> 1, sig |-> FALSE]

\* the token strings a client may present: every signed refresh or email token
\* of any subject and expiry, and a tampered one
PresentedTokens ==
    [sub : Emails, scope : {"refresh_token", "email_token"},
     exp : 1..(MaxTime + RefreshTTL), sig : {TRUE}] \cup {TamperedToken}

\* -------------------------------------------------------- credential hasher
get_password_hash(password) == <<"hash", password>>

verify_password(password, digest) == digest = get_password_hash(password)

\* ----------------------------------------------------------- user directory
get_user_by_email(email) == {u \in users : u.email = email}

TheUser(email) == CHOOSE u \in users : u.email = email

\* a row that is born confirmed
create_user_confirmed(username, email, password) ==
    [username |-> username, email |-> email,
     password |-> password, refresh_token |-> None, confirmed |-> TRUE]

\* User(**body.model_dump(), avatar=avatar) with the column defaults; of the
\* columns, those that an operation of the auth router reads or writes
create_user(username, email, password) ==
    [username |-> username, email |-> email,
     password |-> password, refresh_token |-> None, confirmed |-> FALSE]

update_token(user, token) ==
    (users \ {user}) \cup {[user EXCEPT !.refresh_token = token]}

\* an UPDATE that lost its WHERE clause
users_confirmed_email_all(email) ==
    {[u EXCEPT !.confirmed = TRUE] : u \in users}

users_confirmed_email(email) ==
    {IF u.email = email THEN [u EXCEPT !.confirmed = TRUE] ELSE u : u \in users}

\* ---------------------------------------------------------------- responses
NoTasks == <<>>

\* bt.add_task(...): the work a request leaves for after its response
Task(name, email, username, reset) ==
    [task |-> name, email |-> email, username |-> username, reset |-> reset]

\* what a request leaves behind: the operation and its inputs (email, password,
\* bearer token, reset token), the status code, the detail of an HTTPException
\* or the message of a 200 body, the token pair and the background tasks
Response(op, email, token, status, detail) ==
    [op |-> op, email |-> email, password |-> "", token |-> token, reset |-> 0,
     status |-> status, detail |-> detail, message |-> "",
     access_token |-> None, refresh_token |-> None, tasks |-> NoTasks]

Message(op, email, message) ==
    [Response(op, email, None, HTTP_200_OK, "") EXCEPT !.message = message]

\* the requests that the server may be handling at once
Slots == {1, 2}

\* a request in flight: the handler it runs (pc names the await it has
\* reached), its inputs, the rows its SELECTs returned and, once it is done,
\* its response
Idle ==
    [pc |-> "idle", username |-> "", email |-> "", password |-> "", token |-> None,
     reset |-> 0, user |-> {}, db_token |-> {},
     response |-> Response("none", "", None, 0, "")]

\* a date: of a birthday and of today the queries read month and day only
Date(month, day) == [month |-> month, day |-> day]

NoDate == Date(0, 0)

\* what a contact request leaves behind: the operation, the caller and the
\* inputs (contact id, query string, date of the day, request body), the
\* status code, the detail of an HTTPException and the contacts of the
\* response body
\* no request body (the reads and the delete have none)
NoBody ==
    [first_name |-> <<>>, last_name |-> <<>>, email |-> <<>>,
     phone_number |-> "", birthday |-> NoDate]

ContactReply(op, user, contact_id, query, today, status, detail, body) ==
    [op |-> op, user |-> user, contact_id |-> contact_id, query |-> query,
     today |-> today, payload |-> NoBody, status |-> status, detail |-> detail,
     body |-> body]

\* the reply to a request that came with a request body
WithPayload(response, payload) == [response EXCEPT !.payload = payload]

Init ==
    /\ users = {}
    /\ password_reset_tokens = {}
    /\ now = 0
    /\ reset_seq = 0
    /\ last = Response("none", "", None, 0, "")
    /\ contacts = {}
    /\ contact_seq = 0
    /\ reply = ContactReply("none", 0, 0, <<>>, NoDate, 0, "", {})
    /\ inflight = [i \in Slots |-> Idle]

\* ------------------------------------------------------------------ signup
\* signup that skips the lookup of an existing user
signup_unchecked(username, email, password) ==
    /\ LET new_user == create_user(username, email, get_password_hash(password))
       IN /\ users' = users \cup {new_user}
          /\ last' = [Response("signup", email, None, HTTP_201_CREATED, "") EXCEPT
                        !.tasks = <<Task("send_email", new_user.email,
                                         new_user.username, 0)>>]
    /\ UNCHANGED <<password_reset_tokens, now, reset_seq, contacts, contact_seq, reply, inflight>>

\* (the 500 of line 41 needs create_user to raise: with the lookup and the
\* insert in one step the unique email never does)
signup(username, email, password) ==
    /\ IF get_user_by_email(email) # {}
       THEN /\ last' = Response("signup", email, None, HTTP_409_CONFLICT, "ACCOUNT_EXIST")
            /\ users' = users
       ELSE LET new_user == create_user(username, email, get_password_hash(password))
            IN /\ users' = users \cup {new_user}
               /\ last' = [Response("signup", email, None, HTTP_201_CREATED, "") EXCEPT
                             !.tasks = <<Task("send_email", new_user.email,
                                              new_user.username, 0)>>]
    /\ UNCHANGED <<password_reset_tokens, now, reset_seq, contacts, contact_seq, reply, inflight>>

\* ------------------------------------------------------------------- login
LoginResponse(username, password, status, detail) ==
    [Response("login", username, None, status, detail) EXCEPT !.password = password]

\* login that verifies the password before it looks at the confirmed flag
login_password_first(username, password) ==
    /\ IF get_user_by_email(username) = {}
       THEN /\ last' = LoginResponse(username, password, HTTP_401_UNAUTHORIZED,
                                     "INVALID_EMAIL")
            /\ users' = users
       ELSE LET user == TheUser(username) IN
            IF ~verify_password(password, user.password)
            THEN /\ last' = LoginResponse(username, password, HTTP_401_UNAUTHORIZED,
                                          "INVALID_PASSWORD")
                 /\ users' = users
            ELSE IF ~user.confirmed
            THEN /\ last' = LoginResponse(username, password, HTTP_401_UNAUTHORIZED,
                                          "EMAIL_NOT_CONFIRMED")
                 /\ users' = users
            ELSE LET access == create_access_token(user.email)
                     refresh == create_refresh_token(user.email)
                 IN /\ users' = update_token(user, refresh)
                    /\ last' = [LoginResponse(username, password, HTTP_201_CREATED, "") EXCEPT
                                  !.access_token = access, !.refresh_token = refresh]
    /\ UNCHANGED <<password_reset_tokens, now, reset_seq, contacts, contact_seq, reply, inflight>>

\* login that revokes the stored refresh token when the password is wrong
login_revoking(username, password) ==
    /\ IF get_user_by_email(username) = {}
       THEN /\ last' = LoginResponse(username, password, HTTP_401_UNAUTHORIZED,
                                     "INVALID_EMAIL")
            /\ users' = users
       ELSE LET user == TheUser(username) IN
            IF ~user.confirmed
            THEN /\ last' = LoginResponse(username, password, HTTP_401_UNAUTHORIZED,
                                          "EMAIL_NOT_CONFIRMED")
                 /\ users' = users
            ELSE IF ~verify_password(password, user.password)
            THEN /\ last' = LoginResponse(username, password, HTTP_401_UNAUTHORIZED,
                                          "INVALID_PASSWORD")
                 /\ users' = update_token(user, None)
            ELSE LET access == create_access_token(user.email)
                     refresh == create_refresh_token(user.email)
                 IN /\ users' = update_token(user, refresh)
                    /\ last' = [LoginResponse(username, password, HTTP_201_CREATED, "") EXCEPT
                                  !.access_token = access, !.refresh_token = refresh]
    /\ UNCHANGED <<password_reset_tokens, now, reset_seq, contacts, contact_seq, reply, inflight>>

\* login that lets an unconfirmed user in
login_unconfirmed(username, password) ==
    /\ IF get_user_by_email(username) = {}
       THEN /\ last' = LoginResponse(username, password, HTTP_401_UNAUTHORIZED,
                                     "INVALID_EMAIL")
            /\ users' = users
       ELSE LET user == TheUser(username) IN
            IF FALSE
            THEN /\ last' = LoginResponse(username, password, HTTP_401_UNAUTHORIZED,
                                          "EMAIL_NOT_CONFIRMED")
                 /\ users' = users
            ELSE IF ~verify_password(password, user.password)
            THEN /\ last' = LoginResponse(username, password, HTTP_401_UNAUTHORIZED,
                                          "INVALID_PASSWORD")
                 /\ users' = users
            ELSE LET access == create_access_token(user.email)
                     refresh == create_refresh_token(user.email)
                 IN /\ users' = update_token(user, refresh)
                    /\ last' = [LoginResponse(username, password, HTTP_201_CREATED, "") EXCEPT
                                  !.access_token = access, !.refresh_token = refresh]
    /\ UNCHANGED <<password_reset_tokens, now, reset_seq, contacts, contact_seq, reply, inflight>>

login(username, password) ==
    /\ IF get_user_by_email(username) = {}
       THEN /\ last' = LoginResponse(username, password, HTTP_401_UNAUTHORIZED,
                                     "INVALID_EMAIL")
            /\ users' = users
       ELSE LET user == TheUser(username) IN
            IF ~user.confirmed
            THEN /\ last' = LoginResponse(username, password, HTTP_401_UNAUTHORIZED,
                                          "EMAIL_NOT_CONFIRMED")
                 /\ users' = users
            ELSE IF ~verify_password(password, user.password)
            THEN /\ last' = LoginResponse(username, password, HTTP_401_UNAUTHORIZED,
                                          "INVALID_PASSWORD")
                 /\ users' = users
            ELSE LET access == create_access_token(user.email)
                     refresh == create_refresh_token(user.email)
                 IN /\ users' = update_token(user, refresh)
                    /\ last' = [LoginResponse(username, password, HTTP_201_CREATED, "") EXCEPT
                                  !.access_token = access, !.refresh_token = refresh]
    /\ UNCHANGED <<password_reset_tokens, now, reset_seq, contacts, contact_seq, reply, inflight>>

\* ----------------------------------------------------------- refresh_token
\* refresh that rejects a mismatching token but leaves the stored one alone
refresh_token_keeping(token) ==
    /\ IF ~decode_refresh_token_ok(token)
       THEN /\ last' = Response("refresh_token", "", token, HTTP_401_UNAUTHORIZED,
                                "INVALID_TOKEN")
            /\ users' = users
       ELSE LET email == token.sub IN
            IF get_user_by_email(email) = {}
            THEN /\ last' = Response("refresh_token", email, token,
                                     HTTP_500_INTERNAL_SERVER_ERROR, "AttributeError")
                 /\ users' = users
            ELSE LET user == TheUser(email) IN
                 IF user.refresh_token # token
                 THEN /\ users' = users
                      /\ last' = Response("refresh_token", email, token,
                                          HTTP_401_UNAUTHORIZED, "INVALID_REFRESH_TOKEN")
                 ELSE LET access == create_access_token(email)
                          refresh == create_refresh_token(email)
                      IN /\ users' = update_token(user, refresh)
                         /\ last' = [Response("refresh_token", email, token, HTTP_200_OK, "")
                                       EXCEPT !.access_token = access,
                                              !.refresh_token = refresh]
    /\ UNCHANGED <<password_reset_tokens, now, reset_seq, contacts, contact_seq, reply, inflight>>

refresh_token(token) ==
    /\ IF ~decode_refresh_token_ok(token)
       THEN /\ last' = Response("refresh_token", "", token, HTTP_401_UNAUTHORIZED,
                                "INVALID_TOKEN")
            /\ users' = users
       ELSE LET email == token.sub IN
            IF get_user_by_email(email) = {}
            THEN \* user is None: user.refresh_token raises AttributeError
                 /\ last' = Response("refresh_token", email, token,
                                     HTTP_500_INTERNAL_SERVER_ERROR, "AttributeError")
                 /\ users' = users
            ELSE LET user == TheUser(email) IN
                 IF user.refresh_token # token
                 THEN /\ users' = update_token(user, None)
                      /\ last' = Response("refresh_token", email, token,
                                          HTTP_401_UNAUTHORIZED, "INVALID_REFRESH_TOKEN")
                 ELSE LET access == create_access_token(email)
                          refresh == create_refresh_token(email)
                      IN /\ users' = update_token(user, refresh)
                         /\ last' = [Response("refresh_token", email, token, HTTP_200_OK, "")
                                       EXCEPT !.access_token = access,
                                              !.refresh_token = refresh]
    /\ UNCHANGED <<password_reset_tokens, now, reset_seq, contacts, contact_seq, reply, inflight>>

\* --------------------------------------------------------- confirmed_email
\* confirmation without the branch for an already confirmed user
confirmed_email_again(token) ==
    /\ IF ~get_email_from_token_ok(token)
       THEN /\ last' = Response("confirmed_email", "", None, HTTP_400_BAD_REQUEST,
                                "INVALID_TOKEN")
            /\ users' = users
       ELSE LET email == token.sub IN
            IF get_user_by_email(email) = {}
            THEN /\ last' = Response("confirmed_email", email, None, HTTP_400_BAD_REQUEST,
                                     "VERIFICATION_ERROR")
                 /\ users' = users
            ELSE /\ users' = users_confirmed_email(email)
                 /\ last' = Message("confirmed_email", email, "Email confirmed")
    /\ UNCHANGED <<password_reset_tokens, now, reset_seq, contacts, contact_seq, reply, inflight>>

confirmed_email(token) ==
    /\ IF ~get_email_from_token_ok(token)
       THEN /\ last' = Response("confirmed_email", "", None, HTTP_400_BAD_REQUEST,
                                "INVALID_TOKEN")
            /\ users' = users
       ELSE LET email == token.sub IN
            IF get_user_by_email(email) = {}
            THEN /\ last' = Response("confirmed_email", email, None, HTTP_400_BAD_REQUEST,
                                     "VERIFICATION_ERROR")
                 /\ users' = users
            ELSE IF TheUser(email).confirmed
            THEN /\ last' = Message("confirmed_email", email, "Your email is already confirmed")
                 /\ users' = users
            ELSE /\ users' = users_confirmed_email(email)
                 /\ last' = Message("confirmed_email", email, "Email confirmed")
    /\ UNCHANGED <<password_reset_tokens, now, reset_seq, contacts, contact_seq, reply, inflight>>

\* ----------------------------------------------------------- request_email
request_email(email) ==
    /\ IF get_user_by_email(email) = {}
       THEN \* user is None: user.confirmed raises AttributeError
            last' = Response("request_email", email, None,
                             HTTP_500_INTERNAL_SERVER_ERROR, "AttributeError")
       ELSE LET user == TheUser(email) IN
            IF user.confirmed
            THEN last' = Message("request_email", email, "Your email is already confirmed")
            ELSE last' = [Message("request_email", email, "Check your email for confirmation.") EXCEPT
                            !.tasks = <<Task("send_email", user.email, user.username, 0)>>]
    /\ UNCHANGED <<users, password_reset_tokens, now, reset_seq, contacts, contact_seq, reply, inflight>>

\* -------------------------------------------------- password_reset_request
\* an opaque random string that never repeats
generate_reset_token == reset_seq + 1

\* a reset row that is stored without its hour of life
password_reset_request_no_ttl(email) ==
    /\ IF get_user_by_email(email) = {}
       THEN /\ last' = Response("password_reset_request", email, None, HTTP_404_NOT_FOUND,
                                "EMAIL_NOT_FOUND")
            /\ UNCHANGED <<password_reset_tokens, reset_seq>>
       ELSE LET token == generate_reset_token
                expiration == now
                db_token == [email |-> email, token |-> token, expiration |-> expiration]
            IN /\ password_reset_tokens' = password_reset_tokens \cup {db_token}
               /\ reset_seq' = token
               /\ last' = [Message("password_reset_request", email,
                                   "Password reset link has been sent to your email.")
                             EXCEPT !.tasks = <<Task("send_password_reset_email", email,
                                                     "", token)>>]
    /\ UNCHANGED <<users, now, contacts, contact_seq, reply, inflight>>

password_reset_request(email) ==
    /\ IF get_user_by_email(email) = {}
       THEN /\ last' = Response("password_reset_request", email, None, HTTP_404_NOT_FOUND,
                                "EMAIL_NOT_FOUND")
            /\ UNCHANGED <<password_reset_tokens, reset_seq>>
       ELSE LET token == generate_reset_token
                expiration == now + ResetTTL
                db_token == [email |-> email, token |-> token, expiration |-> expiration]
            IN /\ password_reset_tokens' = password_reset_tokens \cup {db_token}
               /\ reset_seq' = token
               /\ last' = [Message("password_reset_request", email,
                                   "Password reset link has been sent to your email.")
                             EXCEPT !.tasks = <<Task("send_password_reset_email", email,
                                                     "", token)>>]
    /\ UNCHANGED <<users, now, contacts, contact_seq, reply, inflight>>

\* ---------------------------------------------------------- reset_password
ResetResponse(token, new_password, status, detail) ==
    [Response("reset_password", "", None, status, detail) EXCEPT
       !.reset = token, !.password = new_password]

\* a reset that changes the password and leaves the token row in the table
reset_password_keeping(token, new_password) ==
    /\ LET rows == {r \in password_reset_tokens : r.token = token} IN
       IF rows = {} \/ (\E db_token \in rows : db_token.expiration < now)
       THEN /\ last' = ResetResponse(token, new_password, HTTP_400_BAD_REQUEST, "INVALID_OR_EXPIRED_TOKEN")
            /\ UNCHANGED <<users, password_reset_tokens>>
       ELSE LET db_token == CHOOSE r \in rows : TRUE IN
            IF get_user_by_email(db_token.email) = {}
            THEN /\ last' = ResetResponse(token, new_password, HTTP_404_NOT_FOUND, "USER_NOT_FOUND")
                 /\ UNCHANGED <<users, password_reset_tokens>>
            ELSE LET user == TheUser(db_token.email) IN
                 /\ users' = (users \ {user}) \cup
                             {[user EXCEPT !.password = get_password_hash(new_password)]}
                 /\ password_reset_tokens' = password_reset_tokens
                 /\ last' = [ResetResponse(token, new_password, HTTP_200_OK, "") EXCEPT
                               !.message = "Password has been reset successfully."]
    /\ UNCHANGED <<now, reset_seq, contacts, contact_seq, reply, inflight>>

\* a reset that removes every token row of the email
reset_password_purging(token, new_password) ==
    /\ LET rows == {r \in password_reset_tokens : r.token = token} IN
       IF rows = {} \/ (\E db_token \in rows : db_token.expiration < now)
       THEN /\ last' = ResetResponse(token, new_password, HTTP_400_BAD_REQUEST, "INVALID_OR_EXPIRED_TOKEN")
            /\ UNCHANGED <<users, password_reset_tokens>>
       ELSE LET db_token == CHOOSE r \in rows : TRUE IN
            IF get_user_by_email(db_token.email) = {}
            THEN /\ last' = ResetResponse(token, new_password, HTTP_404_NOT_FOUND, "USER_NOT_FOUND")
                 /\ UNCHANGED <<users, password_reset_tokens>>
            ELSE LET user == TheUser(db_token.email) IN
                 /\ users' = (users \ {user}) \cup
                             {[user EXCEPT !.password = get_password_hash(new_password)]}
                 /\ password_reset_tokens' = {r \in password_reset_tokens : r.email # db_token.email}
                 /\ last' = [ResetResponse(token, new_password, HTTP_200_OK, "") EXCEPT
                               !.message = "Password has been reset successfully."]
    /\ UNCHANGED <<now, reset_seq, contacts, contact_seq, reply, inflight>>

\* a reset that stores the new password as it came, not its digest
reset_password_plaintext(token, new_password) ==
    /\ LET rows == {r \in password_reset_tokens : r.token = token} IN
       IF rows = {} \/ (\E db_token \in rows : db_token.expiration < now)
       THEN /\ last' = ResetResponse(token, new_password, HTTP_400_BAD_REQUEST, "INVALID_OR_EXPIRED_TOKEN")
            /\ UNCHANGED <<users, password_reset_tokens>>
       ELSE LET db_token == CHOOSE r \in rows : TRUE IN
            IF get_user_by_email(db_token.email) = {}
            THEN /\ last' = ResetResponse(token, new_password, HTTP_404_NOT_FOUND, "USER_NOT_FOUND")
                 /\ UNCHANGED <<users, password_reset_tokens>>
            ELSE LET user == TheUser(db_token.email) IN
                 /\ users' = (users \ {user}) \cup
                             {[user EXCEPT !.password = <<"plain", new_password>>]}
                 /\ password_reset_tokens' = password_reset_tokens \ {db_token}
                 /\ last' = [ResetResponse(token, new_password, HTTP_200_OK, "") EXCEPT
                               !.message = "Password has been reset successfully."]
    /\ UNCHANGED <<now, reset_seq, contacts, contact_seq, reply, inflight>>

\* a reset that also ends the session of the user
reset_password_revoking(token, new_password) ==
    /\ LET rows == {r \in password_reset_tokens : r.token = token} IN
       IF rows = {} \/ (\E db_token \in rows : db_token.expiration < now)
       THEN /\ last' = ResetResponse(token, new_password, HTTP_400_BAD_REQUEST, "INVALID_OR_EXPIRED_TOKEN")
            /\ UNCHANGED <<users, password_reset_tokens>>
       ELSE LET db_token == CHOOSE r \in rows : TRUE IN
            IF get_user_by_email(db_token.email) = {}
            THEN /\ last' = ResetResponse(token, new_password, HTTP_404_NOT_FOUND, "USER_NOT_FOUND")
                 /\ UNCHANGED <<users, password_reset_tokens>>
            ELSE LET user == TheUser(db_token.email) IN
                 /\ users' = (users \ {user}) \cup
                             {[user EXCEPT !.password = get_password_hash(new_password),
                                    !.refresh_token = None]}
                 /\ password_reset_tokens' = password_reset_tokens \ {db_token}
                 /\ last' = [ResetResponse(token, new_password, HTTP_200_OK, "") EXCEPT
                               !.message = "Password has been reset successfully."]
    /\ UNCHANGED <<now, reset_seq, contacts, contact_seq, reply, inflight>>

reset_password(token, new_password) ==
    /\ LET rows == {r \in password_reset_tokens : r.token = token} IN
       IF rows = {} \/ (\E db_token \in rows : db_token.expiration < now)
       THEN /\ last' = ResetResponse(token, new_password, HTTP_400_BAD_REQUEST, "INVALID_OR_EXPIRED_TOKEN")
            /\ UNCHANGED <<users, password_reset_tokens>>
       ELSE LET db_token == CHOOSE r \in rows : TRUE IN
            IF get_user_by_email(db_token.email) = {}
            THEN /\ last' = ResetResponse(token, new_password, HTTP_404_NOT_FOUND, "USER_NOT_FOUND")
                 /\ UNCHANGED <<users, password_reset_tokens>>
            ELSE LET user == TheUser(db_token.email) IN
                 /\ users' = (users \ {user}) \cup
                             {[user EXCEPT !.password = get_password_hash(new_password)]}
                 /\ password_reset_tokens' = password_reset_tokens \ {db_token}
                 /\ last' = [ResetResponse(token, new_password, HTTP_200_OK, "") EXCEPT
                               !.message = "Password has been reset successfully."]
    /\ UNCHANGED <<now, reset_seq, contacts, contact_seq, reply, inflight>>

\* the requests that the model lets through: a request that would issue a
\* reset token is taken only while fewer than limit tokens have been issued
ResetTokensLeft(email, limit) ==
    get_user_by_email(email) # {} => reset_seq < limit

\* ------------------------------------------------------------------- clock
Tick ==
    /\ now < MaxTime
    /\ now' = now + 1
    /\ UNCHANGED <<users, password_reset_tokens, reset_seq, last, contacts, contact_seq, reply, inflight>>

\* ======================================================================
\* Contacts (src/repository/contacts.py, src/routes/contacts.py)
\* ======================================================================
\* the ids of the users that call the contact operations: every handler
\* depends on auth_service.get_current_user, which has resolved the bearer
\* token to a User; of that User the repository reads the id
UserIds == {1, 2}

\* strings whose letter case matters are sequences of characters
Names == {<<"A", "l">>, <<"a", "l">>, <<"B", "o">>, <<"b", "o">>}

ContactEmails == {<<"a", "@", "x">>, <<"A", "@", "x">>, <<"b", "@", "x">>}

\* str.lower() and SQL lower(), character by character
lower_char(c) ==
    CASE c = "A" -> "a"
      [] c = "B" -> "b"
      [] c = "L" -> "l"
      [] c = "O" -> "o"
      [] c = "X" -> "x"
      [] OTHER -> c

lower(str) == [i \in DOMAIN str |-> lower_char(str[i])]

\* the lengths of the months of a year that is not a leap year
DaysInMonth == <<31, 28, 31, 30, 31, 30, 31, 31, 30, 31, 30, 31>>

next_day(date) ==
    IF date.day < DaysInMonth[date.month]
    THEN Date(date.month, date.day + 1)
    ELSE Date(IF date.month = 12 THEN 1 ELSE date.month + 1, 1)

\* date + timedelta(days=days)
RECURSIVE timedelta(_, _)
timedelta(date, days) ==
    IF days = 0 THEN date ELSE timedelta(next_day(date), days - 1)

\* the dates that datetime.utcnow().date() yields
Todays == {Date(1, 1), Date(1, 30), Date(12, 28)}

\* the request bodies (ContactSchema) that callers send
Bodies ==
    { [first_name |-> <<"A", "l">>, last_name |-> <<"B", "o">>,
       email |-> <<"a", "@", "x">>, phone_number |-> "0123456",
       birthday |-> Date(1, 4)],
      [first_name |-> <<"a", "l">>, last_name |-> <<"b", "o">>,
       email |-> <<"A", "@", "x">>, phone_number |-> "7654321",
       birthday |-> Date(1, 11)],
      [first_name |-> <<"B", "o">>, last_name |-> <<"A", "l">>,
       email |-> <<"b", "@", "x">>, phone_number |-> "0123456",
       birthday |-> Date(2, 2)],
      [first_name |-> <<"B", "o">>, last_name |-> <<"B", "o">>,
       email |-> <<"a", "@", "x">>, phone_number |-> "5550000",
       birthday |-> Date(2, 9)],
      [first_name |-> <<"A", "l">>, last_name |-> <<"A", "l">>,
       email |-> <<"b", "@", "x">>, phone_number |-> "5550000",
       birthday |-> Date(1, 31)] }

\* Contact(**body.model_dump(exclude_unset=True), user=user), with the id the
\* table assigns
Contact(id, body, user) ==
    [id |-> id, first_name |-> body.first_name, last_name |-> body.last_name,
     email |-> body.email, phone_number |-> body.phone_number,
     birthday |-> body.birthday, user_id |-> user]

\* what a repository function hands to its caller: a value, or an exception
Returned(value) == [raised |-> "", value |-> value]

Raised(exception) == [raised |-> exception, value |-> {}]

\* ------------------------------------------------------------- repository
\* every result of the query: without ORDER BY the rows that OFFSET skips are
\* any rows of the user
get_contacts(offset, limit, user) ==
    LET rows == {c \in contacts : c.user_id = user}
        left == IF Cardinality(rows) > offset THEN Cardinality(rows) - offset ELSE 0
        count == IF left > limit THEN limit ELSE left
    IN {page \in SUBSET rows : Cardinality(page) = count}

get_contact_id(contact_id, user) ==
    {c \in contacts : c.id = contact_id /\ c.user_id = user}

\* a search by first name that forgot the owner
get_contact_first_name_of_anyone(contact_first_name, user) ==
    {c \in contacts : lower(c.first_name) = lower(contact_first_name)}

get_contact_first_name(contact_first_name, user) ==
    {c \in contacts : /\ lower(c.first_name) = lower(contact_first_name)
                      /\ c.user_id = user}

get_contact_last_name(contact_last_name, user) ==
    {c \in contacts : /\ lower(c.last_name) = lower(contact_last_name)
                      /\ c.user_id = user}

\* scalar_one_or_none() raises MultipleResultsFound on more than one row
get_contact_email(contact_email, user) ==
    LET rows == {c \in contacts : /\ lower(c.email) = lower(contact_email)
                                  /\ c.user_id = user}
    IN IF Cardinality(rows) > 1 THEN Raised("MultipleResultsFound")
       ELSE IF rows = {} THEN Raised("HTTPException")
       ELSE Returned(rows)

\* a window that stops the day before today + 7 days
get_contact_birthday_short(today, user) ==
    LET seven_days_later == timedelta(today, 7) IN
    {c \in contacts :
        /\ c.user_id = user
        /\ \/ /\ c.birthday.month = today.month
              /\ c.birthday.day >= today.day
           \/ /\ c.birthday.month = seven_days_later.month
              /\ c.birthday.day < seven_days_later.day}

get_contact_birthday(today, user) ==
    LET seven_days_later == timedelta(today, 7) IN
    {c \in contacts :
        /\ c.user_id = user
        /\ \/ /\ c.birthday.month = today.month
              /\ c.birthday.day >= today.day
           \/ /\ c.birthday.month = seven_days_later.month
              /\ c.birthday.day <= seven_days_later.day}

\* a table whose phone_number column is not unique
IntegrityError_email_only(row) ==
    \E c \in contacts : /\ c.id # row.id
                        /\ c.email = row.email

\* the unique constraints of contacts.email and contacts.phone_number
IntegrityError(row) ==
    \E c \in contacts : /\ c.id # row.id
                        /\ \/ c.email = row.email
                           \/ c.phone_number = row.phone_number

repository_create_contact(body, user) ==
    LET contact == Contact(contact_seq + 1, body, user) IN
    IF IntegrityError(contact) THEN Raised("IntegrityError")
    ELSE Returned({contact})

\* an update that finds the contact by its id alone
repository_update_contact_of_anyone(contact_id, body, user) ==
    LET found == {c \in contacts : c.id = contact_id} IN
    IF found = {} THEN Returned({})
    ELSE LET contact == Contact(contact_id, body, (CHOOSE c \in found : TRUE).user_id) IN
         IF IntegrityError(contact) THEN Raised("IntegrityError")
         ELSE Returned({contact})

repository_update_contact(contact_id, body, user) ==
    LET found == {c \in contacts : c.id = contact_id /\ c.user_id = user} IN
    IF found = {} THEN Returned({})
    ELSE LET contact == Contact(contact_id, body, user) IN
         IF IntegrityError(contact) THEN Raised("IntegrityError")
         ELSE Returned({contact})

repository_remove_contact(contact_id, user) ==
    Returned({c \in contacts : c.id = contact_id /\ c.user_id = user})

\* ----------------------------------------------------------------- routes
NotFound(op, user, contact_id, query) ==
    ContactReply(op, user, contact_id, query, NoDate, HTTP_404_NOT_FOUND,
                 "Contact not found", {})

\* an exception that no handler catches
ServerError(op, user, contact_id, query, exception) ==
    ContactReply(op, user, contact_id, query, NoDate,
                 HTTP_500_INTERNAL_SERVER_ERROR, exception, {})

auth_vars == <<users, password_reset_tokens, now, reset_seq, last, inflight>>

read_all_contacts(limit, offset, user) ==
    /\ \E page \in get_contacts(offset, limit, user) :
          reply' = ContactReply("read_all_contacts", user, 0, <<>>, NoDate,
                                HTTP_200_OK, "", page)
    /\ UNCHANGED <<contacts, contact_seq>>
    /\ UNCHANGED auth_vars

read_birthday(today, user) ==
    /\ reply' = ContactReply("read_birthday", user, 0, <<>>, today,
                             HTTP_200_OK, "", get_contact_birthday(today, user))
    /\ UNCHANGED <<contacts, contact_seq>>
    /\ UNCHANGED auth_vars

read_by_contact_id(contact_id, user) ==
    /\ LET contact == get_contact_id(contact_id, user) IN
       IF contact = {}
       THEN reply' = NotFound("read_by_contact_id", user, contact_id, <<>>)
       ELSE reply' = ContactReply("read_by_contact_id", user, contact_id, <<>>,
                                  NoDate, HTTP_200_OK, "", contact)
    /\ UNCHANGED <<contacts, contact_seq>>
    /\ UNCHANGED auth_vars

read_contact_first_name(contact_first_name, user) ==
    /\ LET found == get_contact_first_name(contact_first_name, user) IN
       IF found = {}
       THEN reply' = NotFound("read_contact_first_name", user, 0, contact_first_name)
       ELSE reply' = ContactReply("read_contact_first_name", user, 0,
                                  contact_first_name, NoDate, HTTP_200_OK, "", found)
    /\ UNCHANGED <<contacts, contact_seq>>
    /\ UNCHANGED auth_vars

read_contact_last_name(contact_last_name, user) ==
    /\ LET found == get_contact_last_name(contact_last_name, user) IN
       IF found = {}
       THEN reply' = NotFound("read_contact_last_name", user, 0, contact_last_name)
       ELSE reply' = ContactReply("read_contact_last_name", user, 0,
                                  contact_last_name, NoDate, HTTP_200_OK, "", found)
    /\ UNCHANGED <<contacts, contact_seq>>
    /\ UNCHANGED auth_vars

read_contact_email(contact_email, user) ==
    /\ LET contact == get_contact_email(contact_email, user) IN
       IF contact.raised = "HTTPException"
       THEN reply' = NotFound("read_contact_email", user, 0, contact_email)
       ELSE IF contact.raised # ""
       THEN reply' = ServerError("read_contact_email", user, 0, contact_email,
                                 contact.raised)
       ELSE reply' = ContactReply("read_contact_email", user, 0, contact_email,
                                  NoDate, HTTP_200_OK, "", contact.value)
    /\ UNCHANGED <<contacts, contact_seq>>
    /\ UNCHANGED auth_vars

create_contact(body, user) ==
    /\ LET contact == repository_create_contact(body, user) IN
       IF contact.raised # ""
       THEN /\ reply' = WithPayload(ServerError("create_contact", user, 0, <<>>,
                                                contact.raised), body)
            /\ UNCHANGED <<contacts, contact_seq>>
       ELSE /\ contact_seq < MaxContacts
            /\ contacts' = contacts \cup contact.value
            /\ contact_seq' = contact_seq + 1
            /\ reply' = WithPayload(ContactReply("create_contact", user, contact_seq + 1,
                                                 <<>>, NoDate, HTTP_201_CREATED, "",
                                                 contact.value), body)
    /\ UNCHANGED auth_vars

update_contact(body, contact_id, user) ==
    /\ LET contact == repository_update_contact(contact_id, body, user) IN
       IF contact.raised # ""
       THEN /\ reply' = WithPayload(ServerError("update_contact", user, contact_id, <<>>,
                                                contact.raised), body)
            /\ contacts' = contacts
       ELSE IF contact.value = {}
       THEN /\ reply' = WithPayload(NotFound("update_contact", user, contact_id, <<>>),
                                    body)
            /\ contacts' = contacts
       ELSE /\ contacts' = {c \in contacts : c.id # contact_id} \cup contact.value
            /\ reply' = WithPayload(ContactReply("update_contact", user, contact_id, <<>>,
                                                 NoDate, HTTP_200_OK, "", contact.value),
                                    body)
    /\ UNCHANGED contact_seq
    /\ UNCHANGED auth_vars


remove_contact(contact_id, user) ==
    /\ LET contact == repository_remove_contact(contact_id, user) IN
       IF contact.value = {}
       THEN /\ reply' = NotFound("remove_contact", user, contact_id, <<>>)
            /\ contacts' = contacts
       ELSE /\ contacts' = contacts \ contact.value
            /\ reply' = ContactReply("remove_contact", user, contact_id, <<>>,
                                     NoDate, HTTP_204_NO_CONTENT, "", {})
    /\ UNCHANGED contact_seq
    /\ UNCHANGED auth_vars

\* Every operation of the auth router.  Signups use one username here: the
\* store with both tables in play is large, and no operation reads a username.
Next ==
    \/ \E e \in Emails, p \in Passwords : signup("agent007", e, p)
    \/ \E e \in Emails, p \in Passwords : login(e, p)
    \/ \E t \in PresentedTokens : refresh_token(t)
    \/ \E t \in PresentedTokens : confirmed_email(t)
    \/ \E e \in Emails : request_email(e)
    \/ \E e \in Emails : /\ ResetTokensLeft(e, MaxResetTokens)
                          /\ password_reset_request(e)
    \/ \E t \in 1..MaxResetTokens, p \in Passwords : reset_password(t, p)
    \/ Tick

Spec == Init /\ [][Next]_vars

\* The account and session operations alone (no password reset), with every
\* username.
SessionNext ==
    \/ \E n \in Usernames, e \in Emails, p \in Passwords : signup(n, e, p)
    \/ \E e \in Emails, p \in Passwords : login(e, p)
    \/ \E t \in PresentedTokens : refresh_token(t)
    \/ \E t \in PresentedTokens : confirmed_email(t)
    \/ \E e \in Emails : request_email(e)
    \/ Tick

SessionSpec == Init /\ [][SessionNext]_vars

\* The password reset operations on a store that outlives the application.
\* The tables are persistent and password_reset_tokens has no foreign key to
\* users: the application may find a reset row that was written to the table
\* directly, for an email that no user has (tests/test_y_e2e_auth.py, the
\* arrangement of test_reset_password_invalid_user).  Such a row carries a
\* token string that generate_reset_token does not produce (0 here).
SeededResetTokens ==
    [email : Emails, token : {0}, expiration : {ResetTTL}]

ResetInit ==
    /\ users = {}
    /\ \/ password_reset_tokens = {}
       \/ \E r \in SeededResetTokens : password_reset_tokens = {r}
    /\ now = 0
    /\ reset_seq = 0
    /\ last = Response("none", "", None, 0, "")
    /\ contacts = {}
    /\ contact_seq = 0
    /\ reply = ContactReply("none", 0, 0, <<>>, NoDate, 0, "", {})
    /\ inflight = [i \in Slots |-> Idle]

\* the clock runs until every reset row that can exist is past its expiration
ResetTick ==
    /\ now < MaxTime + ResetTTL
    /\ now' = now + 1
    /\ UNCHANGED <<users, password_reset_tokens, reset_seq, last, contacts, contact_seq, reply, inflight>>

ResetNext ==
    \/ \E e \in Emails, p \in Passwords : signup("agent007", e, p)
    \/ \E e \in Emails : /\ ResetTokensLeft(e, MaxResetTokens + 1)
                          /\ password_reset_request(e)
    \/ \E t \in 0..(MaxResetTokens + 1), p \in Passwords : reset_password(t, p)
    \/ ResetTick

ResetSpec == ResetInit /\ [][ResetNext]_vars

\* The contact operations, called by authenticated users.
ContactsNext ==
    \/ \E u \in UserIds, offset \in 0..1 : read_all_contacts(10, offset, u)
    \/ \E u \in UserIds, today \in Todays : read_birthday(today, u)
    \/ \E u \in UserIds, i \in 1..MaxContacts : read_by_contact_id(i, u)
    \/ \E u \in UserIds, q \in Names : read_contact_first_name(q, u)
    \/ \E u \in UserIds, q \in Names : read_contact_last_name(q, u)
    \/ \E u \in UserIds, q \in ContactEmails : read_contact_email(q, u)
    \/ \E u \in UserIds, body \in Bodies : create_contact(body, u)
    \/ \E u \in UserIds, body \in Bodies, i \in 1..MaxContacts : update_contact(body, i, u)
    \/ \E u \in UserIds, i \in 1..MaxContacts : remove_contact(i, u)

ContactsSpec == Init /\ [][ContactsNext]_vars

\* ======================================================================
\* Requests in flight (src/routes/auth.py on an asyncio event loop)
\* ======================================================================
\* The handlers are coroutines: at every await of a database call the event
\* loop may run another request, and each request has a session of its own
\* (src/database/db.py), so what a request selected is a copy that the other
\* request's commit does not change.  A handler is cut here at the awaits
\* between its reads and its writes.
store_vars == <<users, password_reset_tokens, now, reset_seq, last,
                contacts, contact_seq, reply>>

Free(i) == inflight[i].pc \in {"idle", "done"}

Done(i, response) ==
    inflight' = [inflight EXCEPT ![i].pc = "done", ![i].response = response]

\* the UPDATE that a commit flushes for a user that the session selected:
\* it sets the columns whose value differs from the selected one, in the row
\* of the same id (rows are never deleted, and the email is unique)
flush_user(selected, column, value) ==
    IF selected[column] = value
    THEN users
    ELSE {IF u.email = selected.email THEN [u EXCEPT ![column] = value] ELSE u
          : u \in users}

\* ----------------------------------------------------------- signup, cut
\* lines 28: the request arrives and selects the user of its email
signup_get_user_by_email(i, username, email, password) ==
    /\ Free(i)
    /\ inflight' = [inflight EXCEPT ![i] =
                      [Idle EXCEPT !.pc = "signup", !.username = username,
                                   !.email = email, !.password = password,
                                   !.user = get_user_by_email(email)]]
    /\ UNCHANGED store_vars

\* lines 29-47: the test of what was selected, and the insert.  users.email
\* is unique: when a row of that email has been committed since the select,
\* the commit of create_user raises IntegrityError, which the handler's
\* `except Exception` turns into 500 "Помилка створення користувача"
\* (CREATE_USER_ERROR here).
signup_create_user(i) ==
    /\ inflight[i].pc = "signup"
    /\ LET r == inflight[i] IN
       IF r.user # {}
       THEN /\ Done(i, Response("signup", r.email, None, HTTP_409_CONFLICT,
                                "ACCOUNT_EXIST"))
            /\ users' = users
       ELSE IF get_user_by_email(r.email) # {}
       THEN /\ Done(i, Response("signup", r.email, None,
                                HTTP_500_INTERNAL_SERVER_ERROR, "CREATE_USER_ERROR"))
            /\ users' = users
       ELSE LET new_user == create_user(r.username, r.email,
                                        get_password_hash(r.password))
            IN /\ users' = users \cup {new_user}
               /\ Done(i, [Response("signup", r.email, None, HTTP_201_CREATED, "")
                             EXCEPT !.tasks = <<Task("send_email", new_user.email,
                                                     new_user.username, 0)>>])
    /\ UNCHANGED <<password_reset_tokens, now, reset_seq, last,
                   contacts, contact_seq, reply>>

SignupRaceNext ==
    \/ \E i \in Slots, e \in Emails, p \in Passwords :
          signup_get_user_by_email(i, "agent007", e, p)
    \/ \E i \in Slots : signup_create_user(i)

SignupRaceSpec == Init /\ [][SignupRaceNext]_vars

\* ---------------------------------------------------- refresh_token, cut
\* lines 88-90: the request arrives, the token is decoded and the user of
\* its subject selected
refresh_token_get_user_by_email(i, token) ==
    /\ Free(i)
    /\ IF ~decode_refresh_token_ok(token)
       THEN inflight' = [inflight EXCEPT ![i] =
                           [Idle EXCEPT !.pc = "done", !.token = token,
                                        !.response =
                                           Response("refresh_token", "", token,
                                                    HTTP_401_UNAUTHORIZED,
                                                    "INVALID_TOKEN")]]
       ELSE inflight' = [inflight EXCEPT ![i] =
                           [Idle EXCEPT !.pc = "refresh_token", !.token = token,
                                        !.email = token.sub,
                                        !.user = get_user_by_email(token.sub)]]
    /\ UNCHANGED store_vars

\* lines 91-98: the comparison with the refresh token of the selected user,
\* and update_token
refresh_token_update_token(i) ==
    /\ inflight[i].pc = "refresh_token"
    /\ LET r == inflight[i] IN
       IF r.user = {}
       THEN /\ Done(i, Response("refresh_token", r.email, r.token,
                                HTTP_500_INTERNAL_SERVER_ERROR, "AttributeError"))
            /\ users' = users
       ELSE LET user == CHOOSE u \in r.user : TRUE IN
            IF user.refresh_token # r.token
            THEN /\ users' = flush_user(user, "refresh_token", None)
                 /\ Done(i, Response("refresh_token", r.email, r.token,
                                     HTTP_401_UNAUTHORIZED, "INVALID_REFRESH_TOKEN"))
            ELSE LET access == create_access_token(r.email)
                     refresh == create_refresh_token(r.email)
                 IN /\ users' = flush_user(user, "refresh_token", refresh)
                    /\ Done(i, [Response("refresh_token", r.email, r.token,
                                         HTTP_200_OK, "")
                                  EXCEPT !.access_token = access,
                                         !.refresh_token = refresh])
    /\ UNCHANGED <<password_reset_tokens, now, reset_seq, last,
                   contacts, contact_seq, reply>>

\* One account (signup, confirmation, login and the clock, each in one
\* step) and refresh requests in flight that present a refresh token of
\* that account.
RaceEmail == "a@x.com"

RacePassword == "12345678"

RefreshRaceNext ==
    \/ signup("agent007", RaceEmail, RacePassword)
    \/ confirmed_email(create_email_token(RaceEmail))
    \/ login(RaceEmail, RacePassword)
    \/ Tick
    \/ \E i \in Slots, t \in PresentedTokens :
          /\ t.sub = RaceEmail
          /\ t.scope = "refresh_token"
          /\ refresh_token_get_user_by_email(i, t)
    \/ \E i \in Slots : refresh_token_update_token(i)

RefreshRaceSpec == Init /\ [][RefreshRaceNext]_vars

\* --------------------------------------------------- reset_password, cut
\* lines 218-224: the request arrives, the row of the token is selected and
\* tested
reset_password_select_token(i, token, new_password) ==
    /\ Free(i)
    /\ LET rows == {r \in password_reset_tokens : r.token = token} IN
       IF rows = {} \/ (\E db_token \in rows : db_token.expiration < now)
       THEN inflight' = [inflight EXCEPT ![i] =
                           [Idle EXCEPT !.pc = "done", !.reset = token,
                                        !.password = new_password,
                                        !.response =
                                           ResetResponse(token, new_password,
                                                         HTTP_400_BAD_REQUEST,
                                                         "INVALID_OR_EXPIRED_TOKEN")]]
       ELSE inflight' = [inflight EXCEPT ![i] =
                           [Idle EXCEPT !.pc = "db_token", !.reset = token,
                                        !.password = new_password,
                                        !.db_token = rows]]
    /\ UNCHANGED store_vars

\* lines 227-233: the user of the row's email is selected
reset_password_select_user(i) ==
    /\ inflight[i].pc = "db_token"
    /\ LET r == inflight[i]
           db_token == CHOOSE row \in r.db_token : TRUE
       IN IF get_user_by_email(db_token.email) = {}
          THEN Done(i, ResetResponse(r.reset, r.password, HTTP_404_NOT_FOUND,
                                     "USER_NOT_FOUND"))
          ELSE inflight' = [inflight EXCEPT ![i].pc = "user",
                                            ![i].user = get_user_by_email(db_token.email)]
    /\ UNCHANGED store_vars

\* lines 235-237: the new password is committed
reset_password_commit_password(i) ==
    /\ inflight[i].pc = "user"
    /\ LET r == inflight[i]
           user == CHOOSE u \in r.user : TRUE
       IN users' = flush_user(user, "password", get_password_hash(r.password))
    /\ inflight' = [inflight EXCEPT ![i].pc = "password"]
    /\ UNCHANGED <<password_reset_tokens, now, reset_seq, last,
                   contacts, contact_seq, reply>>

\* lines 240-244: the row of the token is deleted and the deletion committed.
\* The commit of line 236 has expired db_token (expire_on_commit is left at
\* its default), so the flush reloads it.  When the other request has
\* deleted the row, what happens depends on when: the reload finds no row and
\* raises ObjectDeletedError (500), or the reload still finds it and the
\* DELETE matches no row, of which SQLAlchemy only warns (200).
reset_password_delete_token(i) ==
    /\ inflight[i].pc = "password"
    /\ LET r == inflight[i]
           db_token == CHOOSE row \in r.db_token : TRUE
           success == [ResetResponse(r.reset, r.password, HTTP_200_OK, "") EXCEPT
                         !.message = "Password has been reset successfully."]
       IN /\ password_reset_tokens' = password_reset_tokens \ {db_token}
          /\ \/ Done(i, success)
             \/ /\ db_token \notin password_reset_tokens
                /\ Done(i, ResetResponse(r.reset, r.password,
                                         HTTP_500_INTERNAL_SERVER_ERROR,
                                         "ObjectDeletedError"))
    /\ UNCHANGED <<users, now, reset_seq, last, contacts, contact_seq, reply>>

\* One account, its reset tokens and the clock, and reset requests in flight.
ResetRaceNext ==
    \/ signup("agent007", RaceEmail, RacePassword)
    \/ \E e \in Emails : /\ ResetTokensLeft(e, MaxResetTokens)
                          /\ password_reset_request(e)
    \/ ResetTick
    \/ \E i \in Slots, t \in 1..MaxResetTokens, p \in Passwords :
          reset_password_select_token(i, t, p)
    \/ \E i \in Slots : reset_password_select_user(i)
    \/ \E i \in Slots : reset_password_commit_password(i)
    \/ \E i \in Slots : reset_password_delete_token(i)

ResetRaceSpec == Init /\ [][ResetRaceNext]_vars


\* ======================================================================
\* Properties
\* ======================================================================
UserEmails == {u.email : u \in users}

\* the step is a request of operation op, and last' is its response (every
\* step but Tick is a request, and only Tick moves the clock)
Request(op) == now' = now /\ last'.op = op

\* C1: a signup with an email that no user has answers 201 and adds exactly
\* one user, with that email; a signup with an email that a user already has,
\* whatever its username and password, answers 409 ACCOUNT_EXIST and leaves
\* the set of users as it was; no operation removes a user, so every signup
\* after the first one for an email is of the second kind.
C1_SignupConflict ==
    [][/\ \A u \in users : u.email \in {v.email : v \in users'}
       /\ Request("signup") =>
            IF last'.email \in UserEmails
            THEN /\ last'.status = HTTP_409_CONFLICT
                 /\ last'.detail = "ACCOUNT_EXIST"
                 /\ users' = users
            ELSE /\ last'.status = HTTP_201_CREATED
                 /\ users \subseteq users'
                 /\ Cardinality(users') = Cardinality(users) + 1
                 /\ Cardinality({v \in users' : v.email = last'.email}) = 1]_vars

C1_Witness ==
    /\ last.op = "signup"
    /\ last.status = HTTP_409_CONFLICT
    /\ Cardinality({u \in users : u.email = last.email}) = 1

\* C2: a login for an existing user answers 401 EMAIL_NOT_CONFIRMED exactly
\* when the user's confirmed flag is false, with the right password as with a
\* wrong one.
C2_UnconfirmedLogin ==
    [][(Request("login") /\ last'.email \in UserEmails) =>
          ((last'.status = HTTP_401_UNAUTHORIZED /\ last'.detail = "EMAIL_NOT_CONFIRMED")
             <=> ~TheUser(last'.email).confirmed)]_vars

C2_Witness ==
    /\ last.op = "login"
    /\ last.detail = "EMAIL_NOT_CONFIRMED"
    /\ \E u \in users : /\ u.email = last.email
                        /\ ~u.confirmed
                        /\ ~verify_password(last.password, u.password)

\* C3: a login fails exactly when the email is unknown, the user unconfirmed or
\* the password wrong; it then answers 401 with the reason of the first of
\* these that applies, returns no token and changes no user.
LoginFailure(e, p) ==
    IF e \notin UserEmails THEN "INVALID_EMAIL"
    ELSE IF ~TheUser(e).confirmed THEN "EMAIL_NOT_CONFIRMED"
    ELSE IF ~verify_password(p, TheUser(e).password) THEN "INVALID_PASSWORD"
    ELSE ""

C3_FailedLogin ==
    [][Request("login") =>
          LET reason == LoginFailure(last'.email, last'.password) IN
          /\ (last'.status # HTTP_201_CREATED) <=> (reason # "")
          /\ (last'.status # HTTP_201_CREATED) =>
                /\ last'.status = HTTP_401_UNAUTHORIZED
                /\ last'.detail = reason
                /\ last'.access_token = None
                /\ last'.refresh_token = None
                /\ users' = users]_vars

C3_Witness ==
    /\ last.op = "login"
    /\ last.status = HTTP_401_UNAUTHORIZED
    /\ last.detail = "INVALID_PASSWORD"
    /\ \E u \in users : u.email = last.email /\ u.confirmed /\ u.refresh_token # None

\* the refresh operation, presented with token t now, would issue a new pair
RefreshAccepted(t) ==
    /\ decode_refresh_token_ok(t)
    /\ \E u \in users : u.email = t.sub /\ u.refresh_token = t

\* the refresh operation, presented with token t now, would answer 401
\* INVALID_REFRESH_TOKEN and clear the stored token
RefreshRevoked(t) ==
    /\ decode_refresh_token_ok(t)
    /\ \E u \in users : u.email = t.sub /\ u.refresh_token # t

\* C4: a successful login of u stores the refresh token it returns, and the
\* refresh token stored for u before (the one that the latest earlier login or
\* refresh of u returned) is no longer accepted by the refresh operation.
C4_SingleActiveRefreshToken ==
    [][(Request("login") /\ last'.status = HTTP_201_CREATED) =>
          /\ \E v \in users' : v.email = last'.email /\ v.refresh_token = last'.refresh_token
          /\ \A u \in users :
                (u.email = last'.email /\ u.refresh_token # None) =>
                   ~(/\ decode_refresh_token_ok(u.refresh_token)
                     /\ \E v \in users' : /\ v.email = u.email
                                          /\ v.refresh_token = u.refresh_token)]_vars

\* C5: once a refresh with token t has succeeded, a refresh that presents t
\* again is answered 401 and clears the stored refresh token.  Stated of the
\* states that follow the successful refresh, whatever time has passed: the
\* refresh operation, presented with t there, does not accept it and takes
\* its revoking branch.
C5_RefreshRotation ==
    (last.op = "refresh_token" /\ last.status = HTTP_200_OK) =>
        (~RefreshAccepted(last.token) /\ RefreshRevoked(last.token))

\* C6: a refresh whose token decodes to an existing user and differs from the
\* stored refresh token answers 401 INVALID_REFRESH_TOKEN without a token pair
\* and sets the stored token of that user, and nothing else, to null; while
\* the stored token of a user is null every refresh for the user answers 401,
\* and only a successful login of the user makes it non-null again.
C6_StaleTokenRevokes ==
    [][/\ ( /\ Request("refresh_token")
            /\ decode_refresh_token_ok(last'.token)
            /\ last'.token.sub \in UserEmails
            /\ TheUser(last'.token.sub).refresh_token # last'.token ) =>
              /\ last'.status = HTTP_401_UNAUTHORIZED
              /\ last'.detail = "INVALID_REFRESH_TOKEN"
              /\ last'.access_token = None
              /\ last'.refresh_token = None
              /\ users' = {IF u.email = last'.token.sub
                           THEN [u EXCEPT !.refresh_token = None] ELSE u : u \in users}
       /\ \A u \in users :
            u.refresh_token = None =>
              /\ (Request("refresh_token") /\ last'.token.sub = u.email) =>
                    (last'.status = HTTP_401_UNAUTHORIZED /\ u \in users')
              /\ \/ \E v \in users' : v.email = u.email /\ v.refresh_token = None
                 \/ /\ Request("login")
                    /\ last'.status = HTTP_201_CREATED
                    /\ last'.email = u.email]_vars

C6_Witness ==
    /\ last.op = "refresh_token"
    /\ last.detail = "INVALID_REFRESH_TOKEN"
    /\ decode_refresh_token_ok(last.token)
    /\ \E u \in users : u.email = last.token.sub /\ u.confirmed /\ u.refresh_token = None

\* C7: a refresh ends with 200 or 401 and nothing else; when its token decodes
\* to an email that no user has it answers 401 and changes no stored state.
C7_RefreshUnknownUser ==
    [][Request("refresh_token") =>
          /\ last'.status \in {HTTP_200_OK, HTTP_401_UNAUTHORIZED}
          /\ (decode_refresh_token_ok(last'.token) /\ last'.token.sub \notin UserEmails) =>
                /\ last'.status = HTTP_401_UNAUTHORIZED
                /\ users' = users
                /\ password_reset_tokens' = password_reset_tokens]_vars

C9_ConfirmEmail ==
    [][(Request("confirmed_email") /\ last'.email \in Emails) =>
          IF last'.email \notin UserEmails
          THEN /\ last'.status = HTTP_400_BAD_REQUEST
               /\ last'.detail = "VERIFICATION_ERROR"
               /\ users' = users
               /\ password_reset_tokens' = password_reset_tokens
          ELSE ~TheUser(last'.email).confirmed =>
                 /\ last'.status = HTTP_200_OK
                 /\ users' = (users \ {TheUser(last'.email)}) \cup
                             {[TheUser(last'.email) EXCEPT !.confirmed = TRUE]}
                 /\ password_reset_tokens' = password_reset_tokens]_vars

C9_Witness ==
    /\ last.op = "confirmed_email"
    /\ last.message = "Email confirmed"
    /\ \E u, v \in users : /\ u.email = last.email
                           /\ u.confirmed
                           /\ v.email # u.email
                           /\ ~v.confirmed

\* C10: a user is unconfirmed right after the signup that created it, and no
\* operation takes a confirmed flag from true back to false (so the flag of a
\* user changes at most once).
C10_ConfirmedMonotone ==
    [][/\ \A v \in users' : v.email \notin UserEmails => ~v.confirmed
       /\ \A u \in users : \E v \in users' : /\ v.email = u.email
                                             /\ u.confirmed => v.confirmed]_vars

C10_Witness ==
    /\ last.op = "reset_password"
    /\ last.status = HTTP_200_OK
    /\ \E u, v \in users : u.confirmed /\ u.refresh_token # None /\ ~v.confirmed

\* C11: request_email answers 200 with a message for every email and changes
\* no stored row: "Your email is already confirmed" and no task for a
\* confirmed user, "Check your email for confirmation." and one confirmation
\* email for an unconfirmed user, a 200 message and no task when no user has
\* the email.
C11_RequestEmail ==
    [][Request("request_email") =>
          /\ last'.status = HTTP_200_OK
          /\ last'.message # ""
          /\ users' = users
          /\ password_reset_tokens' = password_reset_tokens
          /\ IF last'.email \notin UserEmails
             THEN last'.tasks = NoTasks
             ELSE IF TheUser(last'.email).confirmed
             THEN /\ last'.message = "Your email is already confirmed"
                  /\ last'.tasks = NoTasks
             ELSE /\ last'.message = "Check your email for confirmation."
                  /\ Len(last'.tasks) = 1
                  /\ last'.tasks[1].task = "send_email"
                  /\ last'.tasks[1].email = last'.email]_vars

\* C12: a password-reset-request for an email that no user has answers 404
\* and adds no reset row; for the email of a user it adds exactly one row,
\* with that email, a token that no stored row has and expiration = now + 1
\* hour, and leaves one reset email that carries the token of that row.
C12_PasswordResetRequest ==
    [][Request("password_reset_request") =>
          /\ users' = users
          /\ IF last'.email \notin UserEmails
             THEN /\ last'.status = HTTP_404_NOT_FOUND
                  /\ last'.detail = "EMAIL_NOT_FOUND"
                  /\ last'.tasks = NoTasks
                  /\ password_reset_tokens' = password_reset_tokens
             ELSE /\ last'.status = HTTP_200_OK
                  /\ \E r \in password_reset_tokens' \ password_reset_tokens :
                        /\ password_reset_tokens' = password_reset_tokens \cup {r}
                        /\ r.email = last'.email
                        /\ r.token \notin {q.token : q \in password_reset_tokens}
                        /\ r.expiration = now + ResetTTL
                        /\ Len(last'.tasks) = 1
                        /\ last'.tasks[1].task = "send_password_reset_email"
                        /\ last'.tasks[1].email = r.email
                        /\ last'.tasks[1].reset = r.token]_vars

C12_Witness ==
    /\ last.op = "password_reset_request"
    /\ last.status = HTTP_200_OK
    /\ last.email \in UserEmails
    /\ \E r, q \in password_reset_tokens :
          /\ r.token = last.tasks[1].reset
          /\ r.email = last.email
          /\ r.expiration = now + ResetTTL
          /\ q.token # r.token

\* a row of password_reset_tokens holds token t
Stored(t) == \E r \in password_reset_tokens : r.token = t

\* C13: a reset-password with a stored token whose expiration equals the
\* current time answers 400 INVALID_OR_EXPIRED_TOKEN and changes neither a
\* password nor a token row; a reset-password succeeds only with a token whose
\* expiration is strictly later than the current time.
C13_ExpiryBoundary ==
    [][Request("reset_password") =>
          /\ (\E r \in password_reset_tokens :
                 r.token = last'.reset /\ r.expiration = now) =>
                /\ last'.status = HTTP_400_BAD_REQUEST
                /\ last'.detail = "INVALID_OR_EXPIRED_TOKEN"
                /\ users' = users
                /\ password_reset_tokens' = password_reset_tokens
          /\ last'.status = HTTP_200_OK =>
                \E r \in password_reset_tokens :
                   r.token = last'.reset /\ r.expiration > now]_vars

\* C14: a successful reset-password with token t removes the row of t; a
\* reset-password with a token that has no row answers 400
\* INVALID_OR_EXPIRED_TOKEN and changes no user; and a token that was issued
\* and has no row any more never has a row again.  So after its first
\* success every reset-password with t fails, and at most one succeeds.
C14_SingleUse ==
    [][/\ (Request("reset_password") /\ last'.status = HTTP_200_OK) =>
             /\ Stored(last'.reset)
             /\ ~(\E r \in password_reset_tokens' : r.token = last'.reset)
       /\ (Request("reset_password") /\ ~Stored(last'.reset)) =>
             /\ last'.status = HTTP_400_BAD_REQUEST
             /\ last'.detail = "INVALID_OR_EXPIRED_TOKEN"
             /\ users' = users
       /\ \A r \in password_reset_tokens' :
             r.token <= reset_seq => Stored(r.token)]_vars

C14_Witness ==
    /\ last.op = "reset_password"
    /\ last.status = HTTP_400_BAD_REQUEST
    /\ last.reset \in 1..reset_seq
    /\ ~Stored(last.reset)
    /\ \E u \in users, p \in Passwords : u.password = get_password_hash(p)

\* C15: a reset-password with a stored, unexpired token whose email no user
\* has answers 404, changes no user and keeps the token row; a reset-password
\* with a token that has no row or whose row is expired (its expiration is
\* not later than the current time) answers 400 and removes no row.
C15_ResetUnknownUser ==
    [][Request("reset_password") =>
          IF \A r \in password_reset_tokens :
                r.token = last'.reset => r.expiration <= now
          THEN /\ last'.status = HTTP_400_BAD_REQUEST
               /\ last'.detail = "INVALID_OR_EXPIRED_TOKEN"
               /\ users' = users
               /\ password_reset_tokens' = password_reset_tokens
          ELSE (\A r \in password_reset_tokens :
                   r.token = last'.reset => r.email \notin UserEmails) =>
                 /\ last'.status = HTTP_404_NOT_FOUND
                 /\ last'.detail = "USER_NOT_FOUND"
                 /\ users' = users
                 /\ password_reset_tokens' = password_reset_tokens]_vars

\* the operations that read contacts
ReadOps ==
    {"read_all_contacts", "read_birthday", "read_by_contact_id",
     "read_contact_first_name", "read_contact_last_name", "read_contact_email"}

\* C16: whatever list, get-by-id, the searches by first name, last name and
\* email and the birthday query return to a caller is a stored contact that
\* the caller owns; a contact of another user is never in the response.
C16_OwnerScopedReads ==
    reply.op \in ReadOps =>
        \A c \in reply.body : c \in contacts /\ c.user_id = reply.user

C16_Witness ==
    /\ reply.op = "read_contact_first_name"
    /\ reply.status = HTTP_200_OK
    /\ reply.body # {}
    /\ \E c \in contacts : /\ c.user_id # reply.user
                           /\ lower(c.first_name) = lower(reply.query)

\* C17: get-by-id, update and delete called by u with an id that is not the
\* id of a contact of u (no contact has it, or a contact of another user)
\* answer 404 "Contact not found" and leave every stored contact as it was.
C17_NotFound ==
    [][( /\ reply'.op \in {"read_by_contact_id", "update_contact", "remove_contact"}
         /\ ~(\E c \in contacts : /\ c.id = reply'.contact_id
                                  /\ c.user_id = reply'.user) ) =>
            /\ reply'.status = HTTP_404_NOT_FOUND
            /\ reply'.detail = "Contact not found"
            /\ reply'.body = {}
            /\ contacts' = contacts]_vars

C17_Witness ==
    /\ reply.op = "update_contact"
    /\ reply.status = HTTP_404_NOT_FOUND
    /\ \E c \in contacts : c.id = reply.contact_id /\ c.user_id # reply.user

\* C18: a search by first name, by last name or by email returns the
\* caller's contacts whose field equals the query when letter case is
\* ignored, all of them and no others.
C18_CaseInsensitiveSearch ==
    /\ reply.op = "read_contact_first_name" =>
          reply.body = {c \in contacts : /\ c.user_id = reply.user
                                         /\ lower(c.first_name) = lower(reply.query)}
    /\ reply.op = "read_contact_last_name" =>
          reply.body = {c \in contacts : /\ c.user_id = reply.user
                                         /\ lower(c.last_name) = lower(reply.query)}
    /\ reply.op = "read_contact_email" =>
          reply.body = {c \in contacts : /\ c.user_id = reply.user
                                         /\ lower(c.email) = lower(reply.query)}

\* today + days lies in the calendar year of today
SameYear(today, days) == timedelta(today, days).month >= today.month

\* C19: when today + 10 days lies in the year of today, the birthday query
\* returns the caller's contacts whose birthday has the month and day of
\* today + 3 days and none whose birthday has those of today + 10 days.
C19_BirthdayWindow ==
    (reply.op = "read_birthday" /\ SameYear(reply.today, 10)) =>
        \A c \in contacts :
            c.user_id = reply.user =>
               /\ c.birthday = timedelta(reply.today, 3) => c \in reply.body
               /\ c.birthday = timedelta(reply.today, 10) => c \notin reply.body

\* C20: get_contact_email, called (by the email search) for a user who owns
\* no contact with the given email, returns None and raises nothing.
C20_GetContactEmailNone ==
    ( /\ reply.op = "read_contact_email"
      /\ ~(\E c \in contacts : /\ c.user_id = reply.user
                               /\ lower(c.email) = lower(reply.query)) ) =>
        get_contact_email(reply.query, reply.user) = Returned({})

\* C21: reset rows of one email exist side by side: a password-reset-request
\* removes no row, a successful reset-password removes the row of its token
\* and no other, no other step removes a row at all, and a reset-password
\* with a stored token that is not yet expired and belongs to a user succeeds.
\* So of two outstanding tokens of an email each serves one successful reset.
C21_OutstandingTokens ==
    [][/\ (Request("password_reset_request") /\ last'.status = HTTP_200_OK) =>
             password_reset_tokens \subseteq password_reset_tokens'
       /\ (Request("reset_password") /\ last'.status = HTTP_200_OK) =>
             password_reset_tokens' =
                {r \in password_reset_tokens : r.token # last'.reset}
       /\ \A r \in password_reset_tokens :
             \/ r \in password_reset_tokens'
             \/ /\ Request("reset_password")
                /\ last'.status = HTTP_200_OK
                /\ last'.reset = r.token
       /\ ( /\ Request("reset_password")
            /\ \E r \in password_reset_tokens : /\ r.token = last'.reset
                                                /\ r.expiration > now
                                                /\ r.email \in UserEmails ) =>
             last'.status = HTTP_200_OK]_vars

\* both tokens that were issued to the one user have served a reset
C21_Witness ==
    /\ last.op = "reset_password"
    /\ last.status = HTTP_200_OK
    /\ Cardinality(users) = 1
    /\ reset_seq >= 2
    /\ ~Stored(1)
    /\ ~Stored(2)

\* the reason for which login(e, p) fails on the table rows ("" when it
\* succeeds), after the order of the tests of login
LoginFailureOn(rows, e, p) ==
    IF ~(\E u \in rows : u.email = e) THEN "INVALID_EMAIL"
    ELSE LET user == CHOOSE u \in rows : u.email = e IN
         IF ~user.confirmed THEN "EMAIL_NOT_CONFIRMED"
         ELSE IF ~verify_password(p, user.password) THEN "INVALID_PASSWORD"
         ELSE ""

\* C22: a successful reset-password with new password p stores the hash of p,
\* not p, for the user of the token; when that user is confirmed, a login
\* with p then succeeds and a login with any other password fails with
\* INVALID_PASSWORD (a login succeeds exactly when it has no reason to fail).
C22_ResetThenLogin ==
    [][/\ (Request("reset_password") /\ last'.status = HTTP_200_OK) =>
             \E r \in password_reset_tokens :
                /\ r.token = last'.reset
                /\ \E v \in users' :
                      /\ v.email = r.email
                      /\ v.password = get_password_hash(last'.password)
                      /\ v.password # last'.password
                      /\ v.confirmed =>
                            /\ LoginFailureOn(users', v.email, last'.password) = ""
                            /\ \A q \in Passwords \ {last'.password} :
                                  LoginFailureOn(users', v.email, q) = "INVALID_PASSWORD"
       /\ Request("login") =>
             /\ (last'.status = HTTP_201_CREATED)
                   <=> (LoginFailure(last'.email, last'.password) = "")
             /\ last'.status # HTTP_201_CREATED =>
                   last'.detail = LoginFailure(last'.email, last'.password)]_vars

C22_Witness ==
    /\ last.op = "reset_password"
    /\ last.status = HTTP_200_OK
    /\ Cardinality(users) = 1
    /\ \E u \in users : /\ u.confirmed
                        /\ u.password = get_password_hash(last.password)
                        /\ LoginFailure(u.email, last.password) = ""

\* C28: a successful reset-password replaces the password of the user of the
\* token and removes the row of the token; no other row and no other column
\* changes.  Every refresh token that the refresh operation accepted before
\* is accepted after, and every login of an unconfirmed user still fails
\* with EMAIL_NOT_CONFIRMED.
C28_ResetFrame ==
    [][(Request("reset_password") /\ last'.status = HTTP_200_OK) =>
          \E r \in password_reset_tokens :
             /\ r.token = last'.reset
             /\ password_reset_tokens' = password_reset_tokens \ {r}
             /\ \E u \in users :
                   /\ u.email = r.email
                   /\ users' = (users \ {u}) \cup
                        {[u EXCEPT !.password = get_password_hash(last'.password)]}
             /\ \A t \in PresentedTokens : RefreshAccepted(t) => RefreshAccepted(t)'
             /\ \A u \in users :
                   ~u.confirmed =>
                      \A q \in Passwords :
                         LoginFailureOn(users', u.email, q) = "EMAIL_NOT_CONFIRMED"]_vars

C28_Witness ==
    /\ last.op = "reset_password"
    /\ last.status = HTTP_200_OK
    /\ Cardinality(users) = 1
    /\ \E u \in users : /\ u.refresh_token # None
                        /\ RefreshAccepted(u.refresh_token)
                        /\ u.password = get_password_hash(last.password)

\* C29: a user with a stored refresh token is confirmed, and a response that
\* carries a token pair is for a confirmed user.
C29_TokenImpliesConfirmed ==
    /\ \A u \in users : u.refresh_token # None => u.confirmed
    /\ (last.access_token # None \/ last.refresh_token # None) =>
          \E u \in users : u.email = last.email /\ u.confirmed

C29_Witness ==
    /\ last.op = "login"
    /\ last.status = HTTP_201_CREATED
    /\ \E u, v \in users : /\ u.email = last.email
                           /\ u.refresh_token = last.refresh_token
                           /\ u.confirmed
                           /\ ~v.confirmed

\* the month and day of birthday are those of one of the days from today to
\* today + 7 days
InWindow(today, birthday) == \E k \in 0..7 : timedelta(today, k) = birthday

Duplicates(body, id) ==
    \E c \in contacts : /\ c.id # id
                        /\ \/ c.email = body.email
                           \/ c.phone_number = body.phone_number

\* C27: no two stored contacts, of whatever owners, have the same email or
\* the same phone number; a create_contact, and an update_contact of a
\* contact of the caller, whose body has the email or the phone number of
\* another stored contact fails (500) and leaves the contacts as they were.
C27_UniqueContacts ==
    [][/\ \A c, d \in contacts' :
             c # d => (c.email # d.email /\ c.phone_number # d.phone_number)
       /\ (reply'.op = "create_contact" /\ Duplicates(reply'.payload, 0)) =>
             /\ reply'.status = HTTP_500_INTERNAL_SERVER_ERROR
             /\ contacts' = contacts
       /\ ( /\ reply'.op = "update_contact"
            /\ \E c \in contacts : c.id = reply'.contact_id /\ c.user_id = reply'.user
            /\ Duplicates(reply'.payload, reply'.contact_id) ) =>
             /\ reply'.status = HTTP_500_INTERNAL_SERVER_ERROR
             /\ contacts' = contacts]_vars

C27_Witness ==
    /\ reply.op = "create_contact"
    /\ reply.status = HTTP_500_INTERNAL_SERVER_ERROR
    /\ reply.detail = "IntegrityError"
    /\ \E c \in contacts : /\ c.user_id # reply.user
                           /\ c.phone_number = reply.payload.phone_number
                           /\ c.email # reply.payload.email

\* C30: a user never owns two contacts whose emails are equal when letter
\* case is ignored, and the search by email ends with one contact (200) or
\* with "Contact not found" (404), never otherwise.
C30_OneContactPerEmail ==
    /\ \A u \in UserIds, q \in ContactEmails :
          Cardinality({c \in contacts : /\ c.user_id = u
                                        /\ lower(c.email) = lower(q)}) <= 1
    /\ reply.op = "read_contact_email" =>
          \/ reply.status = HTTP_200_OK /\ Cardinality(reply.body) = 1
          \/ reply.status = HTTP_404_NOT_FOUND

\* C23: with signup requests in flight at once, no email ever has two users,
\* every signup ends with 201 or with 409 ACCOUNT_EXIST, and of two signups
\* of one email that have ended at least one was refused.
C23_ConcurrentSignup ==
    /\ \A e \in Emails : Cardinality(get_user_by_email(e)) <= 1
    /\ \A i \in Slots :
          (inflight[i].pc = "done" /\ inflight[i].response.op = "signup") =>
             \/ inflight[i].response.status = HTTP_201_CREATED
             \/ /\ inflight[i].response.status = HTTP_409_CONFLICT
                /\ inflight[i].response.detail = "ACCOUNT_EXIST"
    /\ \A i, j \in Slots :
          ( /\ i # j
            /\ inflight[i].pc = "done" /\ inflight[i].response.op = "signup"
            /\ inflight[j].pc = "done" /\ inflight[j].response.op = "signup"
            /\ inflight[i].email = inflight[j].email ) =>
             \/ inflight[i].response.status # HTTP_201_CREATED
             \/ inflight[j].response.status # HTTP_201_CREATED

\* a refresh request that presented token and was answered with a new pair
Rotated(i, token) ==
    /\ inflight[i].pc = "done"
    /\ inflight[i].response.op = "refresh_token"
    /\ inflight[i].token = token
    /\ inflight[i].response.status = HTTP_200_OK
    /\ inflight[i].response.refresh_token # token

\* C24: with refresh requests in flight at once, no refresh token is
\* exchanged for a new pair by two requests.
C24_ConcurrentRefresh ==
    \A i, j \in Slots, t \in PresentedTokens :
       (i # j /\ Rotated(i, t)) => ~Rotated(j, t)

\* C25: with reset requests in flight at once, no reset token has two
\* requests report success, and whenever a request has committed the new
\* password the row of its token is gone.
C25_ConcurrentReset ==
    /\ \A i, j \in Slots :
          ( /\ i # j
            /\ inflight[i].pc = "done" /\ inflight[j].pc = "done"
            /\ inflight[i].response.op = "reset_password"
            /\ inflight[j].response.op = "reset_password"
            /\ inflight[i].reset = inflight[j].reset ) =>
             \/ inflight[i].response.status # HTTP_200_OK
             \/ inflight[j].response.status # HTTP_200_OK
    /\ \A i \in Slots :
          inflight[i].pc = "password" => inflight[i].db_token \cap password_reset_tokens = {}

====
